---- MODULE Spec2Model ----
(***************************************************************************)
(* A model of EPOS (src/EPOS/classes.py, src/EPOS/population.py):          *)
(*   - class fitparameters, the fit-parameter registry;                    *)
(*   - class epos: set_observation, set_survey, set_parametric,            *)
(*     set_massradius, set_ranges and the helper _trimarray;               *)
(*   - population.periodradius, the density evaluation.                    *)
(*                                                                         *)
(* Python lists are 1-based sequences here: the Python index i is i+1.     *)
(***************************************************************************)
EXTENDS Integers, Sequences, FiniteSets, TLC

(***************************************************************************)
(* Bounds of the model and the input sets the operations draw from.        *)
(***************************************************************************)
\* The largest number of entries of keysall (add calls that are accepted).
MaxKeys == 2

\* np.inf and -np.inf, the default max and min of add(): every other number
\* of the model lies strictly between the two.
PosInf == 1000
NegInf == -1000

Keys == {"pps", "k1"}
Values == {0, 1}
BoundArgs == {<<NegInf, PosInf>>, <<2, 2>>}
\* dx=None is the empty tuple, dx=d the tuple <<d>>.
DxArgs == {<<>>, <<0>>}
\* Components of the vectors handed to checkbounds, getmc, get2d_fromlist.
VecVals == {1, 2, 3}
\* The optimizer chains that share one epos instance.
Chains == {1, 2}
\* The largest sample of the period axis of a survey.
MaxAxis == 4
\* Components of the vectors handed to setfit.
FitVals == {3, 4}
\* The attr argument of get and getfit; "" is attr=None.
Attrs == {"", "min", "max", "dx"}

VARIABLES
    fitpars,    \* fitparameters.fitpars: key -> parameter record (a dict)
    keysall,    \* fitparameters.keysall
    keysfit,    \* fitparameters.keysfit
    keys2d,     \* fitparameters.keys2d
    op,         \* the call on the registry that is returning: its name,
                \* arguments and result; "idle" between two calls
    chains,     \* the optimizer chains evaluating periodradius at once:
                \* chain -> its position in periodradius and its locals
    epos,       \* the epos instance: attribute -> value
    ecall,      \* the call on the epos instance that is returning
    completed,  \* how many set_ranges calls have run to their end
    dens        \* the periodradius call that is returning, and its result

regvars == <<fitpars, keysall, keysfit, keys2d>>
vars == <<fitpars, keysall, keysfit, keys2d, op, chains, epos, ecall, completed, dens>>

(***************************************************************************)
(* Helpers.                                                                *)
(***************************************************************************)
Abs(x) == IF x < 0 THEN -x ELSE x

Range(s) == {s[i] : i \in 1..Len(s)}

\* All sequences of length n over S.
Vectors(S, n) == [1..n -> S]

\* list.index(key): the first position of key (1-based); 0 stands for the
\* ValueError of a key that is not in the list.
IndexOf(s, key) ==
    IF key \in Range(s)
    THEN CHOOSE i \in 1..Len(s) : s[i] = key /\ \A j \in 1..(i-1) : s[j] # key
    ELSE 0

(***************************************************************************)
(* class fitparameters.  A registry is the record of its four attributes;  *)
(* a parameter record is the dict fp, whose optional entries (min, max,    *)
(* dx, value_fit) are listed in fp.has when they are present.              *)
(***************************************************************************)
Reg == [fitpars |-> fitpars, keysall |-> keysall,
        keysfit |-> keysfit, keys2d |-> keys2d]

\* fitparameters.__init__
EmptyDict == [k \in {} |-> 0]

EmptyReg == [fitpars |-> EmptyDict, keysall |-> <<>>, keysfit |-> <<>>, keys2d |-> <<>>]

\* The dict assignment d[key] = fp.
DictPut(d, key, fp) ==
    [k \in (DOMAIN d) \cup {key} |-> IF k = key THEN fp ELSE d[k]]

\* The record add() builds.  dx is kept in tenths: 0.1*value is value tenths.
NewPar(key, value, fixed, min, max, dx) ==
    LET dx10 == IF dx = <<>> THEN value ELSE 10 * dx[1]
    IN  IF fixed
        THEN [key |-> key, value_init |-> value, fixed |-> TRUE,
              min |-> 0, max |-> 0, dx |-> 0, value_fit |-> 0, has |-> {}]
        ELSE [key |-> key, value_init |-> value, fixed |-> FALSE,
              min |-> min, max |-> max,
              dx |-> IF dx10 # 0 THEN Abs(dx10) ELSE 1,
              value_fit |-> 0, has |-> {"min", "max", "dx"}]

\* The key lists after add(): the key is appended, whether or not it is
\* registered already.
AddKeysAll(r, key) == Append(r.keysall, key)

AddKeys2d(r, key, is2D) == IF is2D THEN Append(r.keys2d, key) ELSE r.keys2d

AddKeysFit(r, key, fixed) == IF ~fixed THEN Append(r.keysfit, key) ELSE r.keysfit

\* fitparameters.add
add(r, key, value, fixed, min, max, dx, is2D) ==
    [fitpars |-> DictPut(r.fitpars, key, NewPar(key, value, fixed, min, max, dx)),
     keysall |-> AddKeysAll(r, key),
     keysfit |-> AddKeysFit(r, key, fixed),
     keys2d  |-> AddKeys2d(r, key, is2D)]

\* fitparameters.default: add(key, value, fixed=True) unless key is in keysall.
default(r, key, value) ==
    IF key \notin Range(r.keysall)
    THEN add(r, key, value, TRUE, NegInf, PosInf, <<>>, FALSE)
    ELSE r

\* fitparameters.set (the key is registered)
set(r, key, value) ==
    [r EXCEPT !.fitpars[key].value_init = value]

\* fitparameters.setfit: one assignment per entry of keysfit, in order.
RECURSIVE SetFitFrom(_, _, _, _)
SetFitFrom(fp, kfit, mclist, i) ==
    IF i > Len(kfit) THEN fp
    ELSE SetFitFrom([fp EXCEPT ![kfit[i]].value_fit = mclist[i],
                               ![kfit[i]].has = @ \cup {"value_fit"}],
                    kfit, mclist, i + 1)

setfit(r, mclist) ==
    [r EXCEPT !.fitpars = SetFitFrom(r.fitpars, r.keysfit, mclist, 1)]

\* fitparameters.get with attr=None (the key is registered)
get(r, key, Init) ==
    IF Init \/ "value_fit" \notin r.fitpars[key].has
    THEN r.fitpars[key].value_init
    ELSE r.fitpars[key].value_fit

\* fitparameters.get with an attr: the dict entry, or a KeyError.
HasAttr(r, key, attr) == attr \in r.fitpars[key].has

getattr(r, key, attr) ==
    CASE attr = "min" -> r.fitpars[key].min
      [] attr = "max" -> r.fitpars[key].max
      [] attr = "dx" -> r.fitpars[key].dx
      [] OTHER -> r.fitpars[key].value_fit

\* fitparameters.get2d
get2d(r, Init) == [i \in 1..Len(r.keys2d) |-> get(r, r.keys2d[i], Init)]

\* fitparameters.getfit with attr=None
getfit(r, Init) == [i \in 1..Len(r.keysfit) |-> get(r, r.keysfit[i], Init)]

\* A getmc that reads the stored value of a free key, not the list.
getmc_stored(r, key, parlist) == get(r, key, FALSE)

\* fitparameters.getmc (the key is registered)
getmc(r, key, parlist) ==
    IF r.fitpars[key].fixed
    THEN r.fitpars[key].value_init
    ELSE parlist[IndexOf(r.keysfit, key)]

\* A get2d_fromlist that reads the stored values, not the list it is given.
get2d_fromlist_stored(r, parlist) == get2d(r, FALSE)

\* fitparameters.get2d_fromlist: the loop over keys2d, appending to l2d.
RECURSIVE Get2dLoop(_, _, _, _)
Get2dLoop(r, parlist, i, l2d) ==
    IF i > Len(r.keys2d) THEN l2d
    ELSE LET key == r.keys2d[i]
         IN  Get2dLoop(r, parlist, i + 1,
                 IF r.fitpars[key].fixed
                 THEN Append(l2d, r.fitpars[key].value_init)
                 ELSE Append(l2d, parlist[IndexOf(r.keysfit, key)]))

get2d_fromlist(r, parlist) == Get2dLoop(r, parlist, 1, <<>>)

\* The two comparisons of checkbounds.
BelowMin(x, min) == x < min

AboveMax(x, max) == x > max

\* fitparameters.checkbounds: "ok", or the exception of the first entry of
\* keysfit that raises: a KeyError when the record has no 'min' (a record
\* add() wrote with fixed=True), a ValueError when the value is out of bounds.
RECURSIVE CheckLoop(_, _, _)
CheckLoop(r, parlist, i) ==
    IF i > Len(r.keysfit) THEN "ok"
    ELSE LET fp == r.fitpars[r.keysfit[i]]
         IN  IF "min" \notin fp.has THEN "KeyError"
             ELSE IF BelowMin(parlist[i], fp.min) THEN "ValueError"
             ELSE IF AboveMax(parlist[i], fp.max) THEN "ValueError"
             ELSE CheckLoop(r, parlist, i + 1)

checkbounds(r, parlist) == CheckLoop(r, parlist, 1)

(***************************************************************************)
(* Numbers.  Periods and sizes (axis samples, trim and zoom bounds) are    *)
(* kept as their base-10 logarithms, which leaves every comparison, min,   *)
(* max and searchsorted as it is and makes np.log10 and np.log of a ratio  *)
(* exact: log10(x1/x0) is the difference d, log(x1/x0) is d*ln(10).  A     *)
(* float that is built from these is the record [n, d, l] standing for     *)
(* (n/d) * ln(10)^l, in lowest terms; d = 0 is inf (n = 1) or nan (n = 0), *)
(* which is what numpy's division by zero gives.                           *)
(***************************************************************************)
Max(a, b) == IF a > b THEN a ELSE b

Min(a, b) == IF a < b THEN a ELSE b

RECURSIVE GCD(_, _)
GCD(a, b) == IF b = 0 THEN a ELSE GCD(b, a % b)

Num(n, d, l) ==
    IF d = 0 THEN [n |-> IF n = 0 THEN 0 ELSE 1, d |-> 0, l |-> 0]
    ELSE IF n = 0 THEN [n |-> 0, d |-> 1, l |-> 0]
    ELSE LET g == GCD(n, d) IN [n |-> n \div g, d |-> d \div g, l |-> l]

NInt(k) == Num(k, 1, 0)

NInf == Num(1, 0, 0)

NNan == Num(0, 0, 0)

IsNan(a) == a.d = 0 /\ a.n = 0

IsInf(a) == a.d = 0 /\ a.n = 1

IsZero(a) == a.d # 0 /\ a.n = 0

NMul(a, b) ==
    IF IsNan(a) \/ IsNan(b) THEN NNan
    ELSE IF IsInf(a) \/ IsInf(b)
    THEN (IF IsZero(a) \/ IsZero(b) THEN NNan ELSE NInf)
    ELSE Num(a.n * b.n, a.d * b.d, a.l + b.l)

\* 1/a: 1/0 is inf, 1/inf is 0.
NInv(a) ==
    IF IsNan(a) THEN NNan
    ELSE IF IsInf(a) THEN NInt(0)
    ELSE IF IsZero(a) THEN NInf
    ELSE Num(a.d, a.n, -a.l)

NDiv(a, b) == NMul(a, NInv(b))

\* a + b; two finite nonzero terms carry the same power of ln(10).
NAdd(a, b) ==
    IF IsNan(a) \/ IsNan(b) THEN NNan
    ELSE IF IsInf(a) \/ IsInf(b) THEN NInf
    ELSE IF IsZero(a) THEN b
    ELSE IF IsZero(b) THEN a
    ELSE Num(a.n * b.d + b.n * a.d, a.d * b.d,
             CHOOSE l \in {a.l} \cap {b.l} : TRUE)

\* np.log10 and np.log of the ratio of two samples d decades apart.
Log10Ratio(d) == NInt(d)

LnRatio(d) == Num(d, 1, 1)

(***************************************************************************)
(* class epos.  The instance is the record of its attributes; an attribute *)
(* that is not assigned yet holds an empty value, and epos.has lists the   *)
(* attributes that hasattr() and attribute reads depend on.  eff_2D and    *)
(* MC_eff hold the shape of their matrix.                                  *)
(***************************************************************************)
\* np.logspace's default number of samples.
LogspaceNum == 50

\* The dict pfm before it has any key.
NoPfm == [has |-> {}, sma |-> <<>>, M |-> <<>>, ID |-> <<>>, tag |-> <<>>,
          inc |-> <<>>, P |-> <<>>, np |-> 0, ns |-> 0, dP |-> <<>>]

\* epos.__init__
NewEpos(RV) ==
    [RV |-> RV, Observation |-> FALSE, Range |-> FALSE,
     DetectionEfficiency |-> FALSE, MassRadius |-> FALSE,
     has |-> {}, PDF |-> FALSE, Parametric |-> FALSE, func |-> "",
     masslimits |-> <<>>,
     obs_size |-> 0,
     eff_xvar |-> <<>>, eff_yvar |-> <<>>, eff_2D |-> <<0, 0>>,
     eff_cells |-> <<>>, Mstar |-> 0, Rstar |-> 0,
     eff_xlim |-> <<>>, eff_ylim |-> <<>>,
     completeness |-> [cells |-> <<>>, geo |-> <<>>],
     xtrim |-> <<>>, ytrim |-> <<>>, xzoom |-> <<>>, yzoom |-> <<>>,
     Zoom |-> FALSE,
     MC_xvar |-> <<>>, MC_yvar |-> <<>>, MC_eff |-> <<0, 0>>,
     area |-> "",
     scale_x |-> NInt(0), scale_y |-> NInt(0), scale |-> NInt(0),
     in_yvar |-> <<>>, in_yunit |-> 1,
     scale_in_y |-> NInt(0), scale_in |-> NInt(0),
     occurrence |-> {},
     bin |-> [has |-> {}, x |-> <<>>, y |-> <<>>],
     pfm |-> NoPfm]

\* What a method hands back: the instance after it, "ok" or the exception.
Out(e, err) == [e |-> e, err |-> err]

\* min() and max() of a non-empty array.
ArrMin(a) == CHOOSE x \in Range(a) : \A y \in Range(a) : x <= y

ArrMax(a) == CHOOSE x \in Range(a) : \A y \in Range(a) : x >= y

\* epos.set_observation, for arrays xvar and starID of n entries and yvar
\* of ny entries: lexsort and the fancy indexing raise on fewer yvar
\* entries, min() raises on empty arrays.
set_observation(e, n, ny) ==
    IF ny < n
    THEN Out([e EXCEPT !.obs_size = n], "IndexError")
    ELSE IF n = 0
    THEN Out([e EXCEPT !.obs_size = n], "ValueError")
    ELSE Out([e EXCEPT !.obs_size = n, !.Observation = TRUE], "ok")

\* np.shape of a matrix, given as the sequence of its rows.
Shape(m) == <<Len(m), IF m = <<>> THEN 0 ELSE Len(m[1])>>

\* The factor fgeo_prefac * P^(-2/3) of each row of the grid (lines
\* 256-262): the geometric transit probability at the period P of the row,
\* for a star of radius Rstar and mass Mstar.
Geo(xvar, Rstar, Mstar) ==
    [i \in 1..Len(xvar) |-> [Rstar |-> Rstar, Mstar |-> Mstar, P |-> xvar[i]]]

\* A completeness grid that weighs the cells of every survey.
Completeness_weighted(RV, eff_2D, xvar, Rstar, Mstar) ==
    [cells |-> eff_2D, geo |-> Geo(xvar, Rstar, Mstar)]

\* The completeness grid (lines 253-262): its cells are those of the raw
\* efficiency matrix, each times the factor geo of its row; geo is empty
\* for a radial velocity survey, whose grid is the raw matrix itself.
Completeness(RV, eff_2D, xvar, Rstar, Mstar) ==
    [cells |-> eff_2D, geo |-> IF RV THEN <<>> ELSE Geo(xvar, Rstar, Mstar)]

\* epos.set_survey, for a matrix eff_2D: the arrays are stored before the
\* shape is validated.  epos.eff_2D keeps the shape of the stored matrix,
\* epos.eff_cells its entries; Rstar is stored for a transit survey only.
set_survey(e, xvar, yvar, eff_2D, Rstar, Mstar) ==
    LET e1 == [e EXCEPT !.eff_xvar = xvar, !.eff_yvar = yvar,
                        !.eff_2D = Shape(eff_2D), !.eff_cells = eff_2D]
    IN  IF Shape(eff_2D) # <<Len(xvar), Len(yvar)>>
        THEN Out(e1, "ValueError")
        ELSE Out([e1 EXCEPT
                    !.eff_xlim = <<ArrMin(xvar), ArrMax(xvar)>>,
                    !.eff_ylim = <<ArrMin(yvar), ArrMax(yvar)>>,
                    !.Mstar = Mstar,
                    !.Rstar = IF e.RV THEN @ ELSE Rstar,
                    !.completeness = Completeness(e.RV, eff_2D, xvar, Rstar, Mstar),
                    !.DetectionEfficiency = TRUE], "ok")

\* epos.set_parametric, for a callable func.  The fresh fitparameters() it
\* stores as epos.fitpars is the registry (see SetParametric).
set_parametric(e, func) ==
    Out([e EXCEPT !.func = func, !.Parametric = TRUE, !.PDF = TRUE,
                  !.has = @ \cup {"PDF"}], "ok")

\* epos.set_massradius, for a callable MR.
set_massradius(e, masslimits) ==
    IF e.MassRadius THEN Out(e, "ValueError")
    ELSE Out([e EXCEPT !.MassRadius = TRUE, !.masslimits = masslimits], "ok")

\* np.searchsorted(array, v, side='left') on a sorted array.
SearchSortedLeft(array, v) == Cardinality({i \in 1..Len(array) : array[i] < v})

\* The lower index of _trimarray.
TrimLower(array, trim) ==
    IF trim[1] < array[2] THEN 0
    ELSE SearchSortedLeft(array, trim[1]) - 1

\* An upper index that keeps no sample past the upper trim edge.
TrimUpper_tight(array, trim) ==
    IF trim[2] > array[Len(array) - 1] THEN Len(array)
    ELSE SearchSortedLeft(array, trim[2])

\* The upper index of _trimarray.
TrimUpper(array, trim) ==
    IF trim[2] > array[Len(array) - 1] THEN Len(array)
    ELSE SearchSortedLeft(array, trim[2]) + 1

\* _trimarray: <<imin, imax>>, or <<>> for the IndexError of array[1] and
\* array[-2] on an array of fewer than two samples.
trimarray(array, trim) ==
    IF Len(array) < 2 THEN <<>>
    ELSE <<TrimLower(array, trim), TrimUpper(array, trim)>>

\* The slice array[imin:imax].
Slice(array, imin, imax) == SubSeq(array, imin + 1, Min(imax, Len(array)))

\* The length of the slice [imin:imax] of an axis of n entries.
SliceLen(n, imin, imax) == Max(0, Min(imax, n) - Min(imin, n))

\* The clamping of a requested range to a limit (lines 278, 284, 291, 297).
Clamp(req, lim) == <<Max(req[1], lim[1]), Min(req[2], lim[2])>>

\* xtrim and ytrim; a request of <<>> is None.
TrimOf(req, lim) == IF req = <<>> THEN lim ELSE Clamp(req, lim)

\* xzoom and yzoom.
ZoomOf(req, trim) == IF req = <<>> THEN trim ELSE Clamp(req, trim)

\* size/area(array[-1]/array[0]) of a non-empty array.
ScaleOf(array, LogArea) ==
    LET d == array[Len(array)] - array[1]
    IN  NDiv(NInt(Len(array)), IF LogArea THEN Log10Ratio(d) ELSE LnRatio(d))

\* np.logspace(*np.log10(masslimits)): LogspaceNum samples, evenly spaced in
\* the logarithm, kept in units of 1/(LogspaceNum-1) decade.
Logspace(masslimits) ==
    [i \in 1..LogspaceNum |->
        (LogspaceNum - 1) * masslimits[1] + (i - 1) * (masslimits[2] - masslimits[1])]

\* size/area(in_yvar[-1]/in_yvar[0]) of the logspace grid.
ScaleOfLogspace(masslimits, LogArea) ==
    LET d == masslimits[2] - masslimits[1]
    IN  NDiv(NInt(LogspaceNum), IF LogArea THEN Log10Ratio(d) ELSE LnRatio(d))

\* A state check that lets a second call through.
RangeGuard_again(e) ==
    IF ~e.Observation THEN "ValueError"
    ELSE IF ~e.DetectionEfficiency THEN "ValueError"
    ELSE ""

\* set_ranges lines 269-271: the exception of the state check, "" if none.
RangeGuard(e) ==
    IF e.Range THEN "ValueError"
    ELSE IF ~e.Observation THEN "ValueError"
    ELSE IF ~e.DetectionEfficiency THEN "ValueError"
    ELSE ""

\* set_ranges lines 274-305: the trim and zoom bounds.
RangeBounds(e, xtrim, ytrim, xzoom, yzoom) ==
    LET xt == TrimOf(xtrim, e.eff_xlim)
        yt == TrimOf(ytrim, e.eff_ylim)
        xz == ZoomOf(xzoom, xt)
        yz == ZoomOf(yzoom, yt)
    IN  [e EXCEPT !.xtrim = xt, !.ytrim = yt, !.xzoom = xz, !.yzoom = yz,
                  !.Zoom = IF xzoom = <<>> /\ yzoom = <<>> THEN FALSE
                           ELSE IF xz = xt /\ yz = yt THEN FALSE
                           ELSE TRUE]

\* set_ranges lines 312-322: the working grid.
RangeGrid(e, ix, iy, LogArea) ==
    [e EXCEPT !.MC_xvar = Slice(e.eff_xvar, ix[1], ix[2]),
              !.MC_yvar = Slice(e.eff_yvar, iy[1], iy[2]),
              !.MC_eff = <<SliceLen(e.eff_2D[1], ix[1], ix[2]),
                           SliceLen(e.eff_2D[2], iy[1], iy[2])>>,
              !.area = IF LogArea THEN "d log" ELSE "d ln"]

\* set_ranges lines 324-326: the scale factors.
RangeScale(e, LogArea) ==
    LET sx == ScaleOf(e.MC_xvar, LogArea)
        sy == ScaleOf(e.MC_yvar, LogArea)
    IN  [e EXCEPT !.scale_x = sx, !.scale_y = sy, !.scale = NMul(sx, sy)]

\* set_ranges lines 331-344: the grid of the PDF.
RangePdfGrid(e, LogArea) ==
    IF ~e.PDF THEN e
    ELSE IF e.MassRadius
    THEN LET siy == ScaleOfLogspace(e.masslimits, LogArea)
         IN  [e EXCEPT !.in_yvar = Logspace(e.masslimits),
                       !.in_yunit = LogspaceNum - 1,
                       !.scale_in_y = siy,
                       !.scale_in = NMul(e.scale_x, siy)]
    ELSE [e EXCEPT !.in_yvar = e.MC_yvar, !.in_yunit = 1,
                   !.scale_in_y = e.scale_y, !.scale_in = e.scale]

\* epos.set_ranges.  Every assignment made before an exception stays.
set_ranges(e, xtrim, ytrim, xzoom, yzoom, LogArea, Occ) ==
    IF RangeGuard(e) # "" THEN Out(e, RangeGuard(e))
    ELSE
    LET e1 == RangeBounds(e, xtrim, ytrim, xzoom, yzoom)
        ix == trimarray(e1.eff_xvar, e1.xtrim)
        iy == trimarray(e1.eff_yvar, e1.ytrim)
    IN  IF ix = <<>> \/ iy = <<>> THEN Out(e1, "IndexError")
        ELSE
        LET e2 == RangeGrid(e1, ix, iy, LogArea)
        IN  IF e2.MC_xvar = <<>> \/ e2.MC_yvar = <<>> THEN Out(e2, "IndexError")
            ELSE
            LET e3 == RangeScale(e2, LogArea)
            IN  IF "PDF" \notin e3.has THEN Out(e3, "AttributeError")
                ELSE
                LET e4 == [RangePdfGrid(e3, LogArea) EXCEPT !.Range = TRUE]
                IN  IF ~Occ THEN Out(e4, "ok")
                    ELSE IF e4.MassRadius THEN Out(e4, "NameError")
                    ELSE Out([e4 EXCEPT !.occurrence = @ \cup {"xzoom", "yzoom"}],
                             "ok")

(***************************************************************************)
(* epos.set_bins.  The xbins and ybins arguments are [ndim, v]: np.ndim of *)
(* the argument and its rows (for ndim 1 the argument is the one row v[1], *)
(* for ndim 2 it is the list v of rows); xgrid and ygrid are a list of bin *)
(* interfaces, <<>> for None.  epos.bin is the dict occurrence['bin'],     *)
(* with its keys in has.                                                   *)
(***************************************************************************)
\* [[i,j] for i,j in zip(grid[:-1], grid[1:])]
BinsOfGrid(grid) == [k \in 1..(Len(grid) - 1) |-> <<grid[k], grid[k + 1]>>]

\* Lines 399-408 and 410-419: the list of bins of one axis, with the
\* exception raised on the way ("ok" if none).
BinList(bins, grid) ==
    IF grid # <<>> THEN [err |-> "ok", v |-> BinsOfGrid(grid)]
    ELSE IF bins.ndim = 1
    THEN (IF Len(bins.v[1]) = 2 THEN [err |-> "ok", v |-> <<bins.v[1]>>]
          ELSE [err |-> "AssertionError", v |-> <<>>])
    ELSE IF bins.ndim = 2 THEN [err |-> "ok", v |-> bins.v]
    ELSE [err |-> "ValueError", v |-> <<>>]

\* A shape that is the same for every list of bins.
BinShape_same(bins, grid) == <<0>>

\* np.shape of the list of bins of one axis: (n, 2) for n bins, (0,) for
\* the empty array that a grid of a single interface gives.
BinShape(bins, grid) ==
    IF grid # <<>> /\ Len(grid) = 1 THEN <<0>>
    ELSE <<Len(BinList(bins, grid).v), 2>>

RECURSIVE Repeat(_, _)
Repeat(rows, reps) == IF reps = 0 THEN <<>> ELSE rows \o Repeat(rows, reps - 1)

\* np.tile(rows, (reps, 1)): the rows, reps times over; an empty array
\* gives reps empty rows.
Tile(rows, reps) ==
    IF rows = <<>> THEN [k \in 1..reps |-> <<>>] ELSE Repeat(rows, reps)

\* epos.set_bins
set_bins(e, xbins, ybins, xgrid, ygrid, Grid) ==
    LET _xbins == BinList(xbins, xgrid)
        _ybins == BinList(ybins, ygrid)
        e1 == [e EXCEPT !.occurrence = @ \cup {"bin"},
                        !.bin = [has |-> {}, x |-> <<>>, y |-> <<>>]]
    IN  IF _xbins.err # "ok" THEN Out(e, _xbins.err)
        ELSE IF _ybins.err # "ok" THEN Out(e, _ybins.err)
        ELSE IF Grid
        THEN Out([e1 EXCEPT !.bin = [has |-> {"x", "y in"},
                                     x |-> Tile(_xbins.v, Len(_ybins.v)),
                                     y |-> Tile(_ybins.v, Len(_xbins.v))]], "ok")
        ELSE IF BinShape(xbins, xgrid) # BinShape(ybins, ygrid)
        THEN Out(e1, "ValueError")
        ELSE Out([e1 EXCEPT !.bin = [has |-> {"x", "y in"},
                                     x |-> _xbins.v, y |-> _ybins.v]], "ok")

(***************************************************************************)
(* epos.set_population.  A semi-major axis is kept as its base-4           *)
(* logarithm a, so that the period sma^1.5 * 365.25 is 8^a years, an       *)
(* integer, and a period ratio is an exact fraction.  starID, inc and tag  *)
(* are <<>> for None and <<list>> otherwise.  epos.pfm is the dict pfm,    *)
(* with its keys in has.                                                   *)
(***************************************************************************)
RECURSIVE Pow(_, _)
Pow(b, k) == IF k = 0 THEN 1 ELSE b * Pow(b, k - 1)

\* pfm['sma']**1.5 * 365.25, in years.
Period(sma) == [k \in 1..Len(sma) |-> Pow(8, sma[k])]

\* np.lexsort((sma, ID)): the stable order by ID, then by sma, as the list
\* of the (1-based) indices in sorted order.
LexBefore(ID, sma, j, i) ==
    \/ ID[j] < ID[i]
    \/ ID[j] = ID[i] /\ sma[j] < sma[i]
    \/ ID[j] = ID[i] /\ sma[j] = sma[i] /\ j < i

LexSort(sma, ID) ==
    [p \in 1..Len(ID) |->
        CHOOSE i \in 1..Len(ID) :
            Cardinality({j \in 1..Len(ID) : LexBefore(ID, sma, j, i)}) = p - 1]

\* array[order]
Take(array, order) == [p \in 1..Len(order) |-> array[order[p]]]

\* How many planets of the star of planet k there are, and how many of
\* them come at or before k.
PlanetsOf(ID, k) == Cardinality({j \in 1..Len(ID) : ID[j] = ID[k]})

NthOf(ID, k) == Cardinality({j \in 1..k : ID[j] = ID[k]})

\* EPOS.multi.nth_planet(ID, P), for the two results set_population uses:
\* single, the planets of stars with one planet, and multis, whose entry n
\* holds the n-th planets of the stars with several.
nth_planet(ID) ==
    [single |-> {k \in 1..Len(ID) : PlanetsOf(ID, k) = 1},
     multis |-> [n \in 1..Len(ID) |->
                    {k \in 1..Len(ID) : PlanetsOf(ID, k) > 1 /\ NthOf(ID, k) = n}]]

\* Lines 518-523: np.ones_like, 0 for the single planets, and the ratio to
\* the planet before for the planets of multis[1:].
PeriodRatios(ID, P) ==
    LET nth == nth_planet(ID)
    IN  [k \in 1..Len(P) |->
            IF k \in nth.single THEN NInt(0)
            ELSE IF \E n \in 2..Len(ID) : k \in nth.multis[n]
            THEN Num(P[k], P[k - 1], 0)
            ELSE NInt(1)]

\* Lines 488-507: the catalog as it is given.
PfmGiven(sma, mass, inc, starID, tag) ==
    LET ID == IF starID = <<>> THEN [k \in 1..Len(sma) |-> k - 1] ELSE starID[1]
    IN  [has |-> {"sma", "M", "ID", "P", "np", "ns"}
                   \cup (IF tag # <<>> THEN {"tag"} ELSE {})
                   \cup (IF inc # <<>> THEN {"inc"} ELSE {}),
         sma |-> sma, M |-> mass, ID |-> ID,
         tag |-> IF tag # <<>> THEN tag[1] ELSE <<>>,
         inc |-> IF inc # <<>> THEN inc[1] ELSE <<>>,
         P |-> Period(sma), np |-> Len(ID), ns |-> Cardinality(Range(ID)),
         dP |-> <<>>]

\* Lines 510-523, for a catalog with more planets than stars: the sort and
\* the period ratios.  lexsort raises on keys of different lengths, and
\* array[order] on an array shorter than order; the keys sorted before an
\* exception stay sorted.
PfmSorted(e, pfm) ==
    IF Len(pfm.ID) # Len(pfm.sma) THEN Out([e EXCEPT !.pfm = pfm], "ValueError")
    ELSE
    LET order == LexSort(pfm.sma, pfm.ID)
        n == Len(order)
        p1 == [pfm EXCEPT !.ID = Take(@, order), !.sma = Take(@, order),
                          !.M = Take(@, order), !.P = Take(@, order)]
    IN  IF "inc" \in pfm.has /\ Len(pfm.inc) < n
        THEN Out([e EXCEPT !.pfm = p1], "IndexError")
        ELSE
        LET p2 == IF "inc" \in pfm.has THEN [p1 EXCEPT !.inc = Take(@, order)] ELSE p1
        IN  IF "tag" \in pfm.has /\ Len(pfm.tag) < n
            THEN Out([e EXCEPT !.pfm = p2], "IndexError")
            ELSE
            LET p3 == IF "tag" \in pfm.has THEN [p2 EXCEPT !.tag = Take(@, order)] ELSE p2
            IN  Out([e EXCEPT !.pfm = [p3 EXCEPT !.has = @ \cup {"dP"},
                                                 !.dP = PeriodRatios(p3.ID, p3.P)]],
                    "ok")

\* epos.set_population, for non-empty lists sma and mass.  The fresh
\* fitparameters() it stores as epos.fitpars is the registry (see
\* SetPopulation).
set_population(e, sma, mass, inc, starID, tag) ==
    IF "pfm" \in e.has THEN Out(e, "ValueError")
    ELSE
    LET e1 == [e EXCEPT !.Parametric = FALSE]
    IN  IF Len(sma) # Len(mass) THEN Out(e1, "ValueError")
        ELSE
        LET pfm == PfmGiven(sma, mass, inc, starID, tag)
            e2 == [e1 EXCEPT !.has = @ \cup {"pfm"}, !.pfm = pfm]
        IN  IF pfm.np > pfm.ns THEN PfmSorted(e2, pfm) ELSE Out(e2, "ok")

(***************************************************************************)
(* population.periodradius.  A grid of densities is a matrix of numbers,   *)
(* indexed by x sample and y sample.                                       *)
(***************************************************************************)
RECURSIVE SumInts(_, _)
SumInts(s, i) == IF i > Len(s) THEN 0 ELSE s[i] + SumInts(s, i + 1)

\* epos.func(X, Y, *fpar2d) at one grid point: the callable is "flat", the
\* same density everywhere, or "ramp", a density that grows along both axes
\* from zero at the point (10, 10), the faster along y the larger the 2D
\* parameters.  y is in units of 1/yunit decade.
FuncCell(func, x, y, yunit, fpar2d) ==
    IF func = "flat" THEN NInt(1)
    ELSE Num((x - 1) * yunit + (y - yunit) * (1 + SumInts(fpar2d, 1)), yunit, 0)

\* epos.func on the meshgrid of xs and ys.
FuncOn(func, xs, ys, yunit, fpar2d) ==
    [i \in 1..Len(xs) |-> [j \in 1..Len(ys) |->
        FuncCell(func, xs[i], ys[j], yunit, fpar2d)]]

\* np.sum of an array.
RECURSIVE NSum(_, _)
NSum(s, i) == IF i > Len(s) THEN NInt(0) ELSE NAdd(s[i], NSum(s, i + 1))

\* np.sum(m, axis=1) and np.sum(m, axis=0) of an nx by ny matrix.
SumAxis1(m) == [i \in 1..Len(m) |-> NSum(m[i], 1)]

SumAxis0(m, ny) ==
    [j \in 1..ny |-> NSum([i \in 1..Len(m) |-> m[i][j]], 1)]

\* np.sum of a matrix.
SumAll(m) == NSum(SumAxis1(m), 1)

\* A joint density that is not normalised by the total.
Scaled_unnormed(pps, cell, total, scale) == NMul(NMul(NInt(pps), cell), scale)

\* pps * cell / total * scale (lines 36, 46-48), left to right.
Scaled(pps, cell, total, scale) ==
    NMul(NDiv(NMul(NInt(pps), cell), total), scale)

\* Lines 8-13: pps and fpar2d, from the stored values (fpara = <<>> is
\* fpara=None) or from the vector fpara[1].
ResolvePps(r, Init, fpara) ==
    IF fpara = <<>> THEN get(r, "pps", Init) ELSE getmc(r, "pps", fpara[1])

Resolve2d(r, Init, fpara) ==
    IF fpara = <<>> THEN get2d(r, Init) ELSE get2d_fromlist(r, fpara[1])

\* Lines 44-48: the densities on the default grid.
DefaultGrid(e, pps, _pdf) ==
    LET ny == Len(e.in_yvar)
        _pdf_X == SumAxis1(_pdf)
        _pdf_Y == SumAxis0(_pdf, ny)
        totX == NSum(_pdf_X, 1)
        totY == NSum(_pdf_Y, 1)
        tot == SumAll(_pdf)
    IN  [err |-> "ok", pps |-> pps,
         pdf |-> [i \in 1..Len(_pdf) |-> [j \in 1..ny |->
                    Scaled(pps, _pdf[i][j], tot, e.scale)]],
         pdf_X |-> [i \in 1..Len(_pdf) |-> Scaled(pps, _pdf_X[i], totX, e.scale_x)],
         pdf_Y |-> [j \in 1..ny |-> Scaled(pps, _pdf_Y[j], totY, e.scale_in_y)]]

\* Lines 26-42: the densities on the grid xgrid, ygrid (<<>> is None).
OtherGrid(e, pps, fpar2d, _pdf, xgrid_, ygrid_) ==
    LET xgrid == IF xgrid_ = <<>> THEN e.MC_xvar ELSE xgrid_
        ygrid == IF ygrid_ = <<>> THEN e.MC_yvar ELSE ygrid_
        nx == Len(xgrid)
        ny == Len(ygrid)
        tot == SumAll(_pdf)
        raw == FuncOn(e.func, xgrid, ygrid, 1, fpar2d)
        pdf == [i \in 1..nx |-> [j \in 1..ny |->
                    Scaled(pps, raw[i][j], tot, e.scale)]]
        dlnx == LnRatio(xgrid[nx] - xgrid[1])
        dlny == LnRatio(ygrid[ny] - ygrid[1])
        rows == SumAxis1(pdf)
        cols == SumAxis0(pdf, ny)
    IN  [err |-> "ok", pps |-> pps, pdf |-> pdf,
         pdf_X |-> [i \in 1..nx |-> NMul(NDiv(rows[i], NInt(ny)), dlny)],
         pdf_Y |-> [j \in 1..ny |-> NMul(NDiv(cols[j], NInt(nx)), dlnx)]]

\* What periodradius hands back when it raises.
Raised(err) == [err |-> err, pps |-> 0, pdf |-> <<>>, pdf_X |-> <<>>, pdf_Y |-> <<>>]

\* periodradius(epos, Init, fpara, xgrid=xgrid, ygrid=ygrid) on the registry
\* r = epos.fitpars, with xbin and ybin left None.
periodradius(e, r, Init, fpara, xgrid, ygrid) ==
    IF "pps" \notin DOMAIN r.fitpars THEN Raised("KeyError")
    ELSE IF ~(e.Range /\ e.PDF) THEN Raised("AttributeError")
    ELSE
    LET pps == ResolvePps(r, Init, fpara)
        fpar2d == Resolve2d(r, Init, fpara)
        _pdf == FuncOn(e.func, e.MC_xvar, e.in_yvar, e.in_yunit, fpar2d)
    IN  IF xgrid # <<>> \/ ygrid # <<>>
        THEN OtherGrid(e, pps, fpar2d, _pdf, xgrid, ygrid)
        ELSE DefaultGrid(e, pps, _pdf)

(***************************************************************************)
(* The registry as a state machine: one action per method.  The caller is  *)
(* single-threaded: a call runs to its end and op holds what it hands back *)
(* (its name, its key and vector arguments, the returned list, a scalar    *)
(* being a list of one, and "ok" or the exception raised) until the caller *)
(* has taken it (Return) and is free to make the next call.                *)
(***************************************************************************)
Call(name, key, arg, ret, err) ==
    [name |-> name, key |-> key, arg |-> arg, ret |-> ret, err |-> err]

NoCall == Call("idle", "", <<>>, <<>>, "ok")

Idle == op.name = "idle"

SetReg(r) ==
    /\ fitpars' = r.fitpars
    /\ keysall' = r.keysall
    /\ keysfit' = r.keysfit
    /\ keys2d' = r.keys2d

\* A chain that has not called periodradius.
NoChain == [pc |-> "idle", mode |-> "", pps |-> 0, fpar2d |-> <<>>]

\* The strictly increasing sequence of the elements of a set of integers.
RECURSIVE SortedSeq(_)
SortedSeq(S) ==
    IF S = {} THEN <<>>
    ELSE LET m == CHOOSE x \in S : \A y \in S : x >= y
         IN  Append(SortedSeq(S \ {m}), m)

\* The inputs of the epos methods.  Period axes are all strictly increasing
\* axes over 1..MaxAxis, period ranges all pairs lo <= hi over 0..MaxAxis+1
\* (inside, across and outside every axis); <<>> is None.
XAxes == {SortedSeq(S) : S \in (SUBSET (1..MaxAxis)) \ {{}}}
YAxes == {<<1, 2, 3>>}
SomeAxes == {<<1, 2, 3>>, <<2>>}
\* A detection efficiency matrix of nx by ny cells, in thirds: the entries
\* vary along both axes, and with fill.
Matrix(nx, ny, fill) == [i \in 1..nx |-> [j \in 1..ny |-> (fill + i + j) % 3]]
\* Ranges lo <= hi: every pair over 0..MaxAxis+1, for the calls whose ranges
\* matter, and a few of them for the calls made in sequence.
AllRanges ==
    {<<>>} \cup {r \in (0..(MaxAxis + 1)) \X (0..(MaxAxis + 1)) : r[1] <= r[2]}
SomeRanges == {<<>>, <<2, 3>>}
Funcs == {"flat", "ramp"}
MassLimits == {<<-2, 3>>}
ObsSizes == {<<2, 2>>, <<0, 0>>}

\* No periodradius call is returning.
NoDens == [name |-> "idle"]

NoECall == [name |-> "idle", err |-> "ok"]

EIdle == ecall.name = "idle"

InitEpos ==
    /\ epos = NewEpos(FALSE)
    /\ ecall = NoECall
    /\ completed = 0
    /\ dens = NoDens

\* What the registry's actions leave alone.
notreg == <<chains, epos, ecall, completed, dens>>

\* What the chains leave alone.
notconc == <<op, epos, ecall, completed, dens>>

Init ==
    /\ fitpars = EmptyDict
    /\ keysall = <<>>
    /\ keysfit = <<>>
    /\ keys2d = <<>>
    /\ op = NoCall
    /\ chains = [c \in Chains |-> NoChain]
    /\ InitEpos

Add(key, value, fixed, min, max, dx, is2D) ==
    /\ Idle
    /\ UNCHANGED notreg
    /\ Len(keysall) < MaxKeys
    /\ SetReg(add(Reg, key, value, fixed, min, max, dx, is2D))
    /\ op' = Call("add", key, <<>>, <<>>, "ok")

Default(key, value) ==
    /\ Idle
    /\ UNCHANGED notreg
    /\ key \in Range(keysall) \/ Len(keysall) < MaxKeys
    /\ SetReg(default(Reg, key, value))
    /\ op' = Call("default", key, <<>>, <<>>, "ok")

Set(key, value) ==
    /\ Idle
    /\ UNCHANGED notreg
    /\ IF key \in DOMAIN fitpars
       THEN /\ SetReg(set(Reg, key, value))
            /\ op' = Call("set", key, <<>>, <<>>, "ok")
       ELSE /\ UNCHANGED regvars
            /\ op' = Call("set", key, <<>>, <<>>, "KeyError")

SetFit(mclist) ==
    /\ Idle
    /\ UNCHANGED notreg
    /\ SetReg(setfit(Reg, mclist))
    /\ op' = Call("setfit", "", mclist, <<>>, "ok")

Get(key, Init_, attr) ==
    /\ Idle
    /\ UNCHANGED notreg
    /\ UNCHANGED regvars
    /\ op' = IF key \notin DOMAIN fitpars
             THEN Call("get", key, <<>>, <<>>, "KeyError")
             ELSE IF attr = ""
             THEN Call("get", key, <<>>, <<get(Reg, key, Init_)>>, "ok")
             ELSE IF HasAttr(Reg, key, attr)
             THEN Call("get", key, <<>>, <<getattr(Reg, key, attr)>>, "ok")
             ELSE Call("get", key, <<>>, <<>>, "KeyError")

Get2d(Init_) ==
    /\ Idle
    /\ UNCHANGED notreg
    /\ UNCHANGED regvars
    /\ op' = Call("get2d", "", <<>>, get2d(Reg, Init_), "ok")

GetFit(Init_, attr) ==
    /\ Idle
    /\ UNCHANGED notreg
    /\ UNCHANGED regvars
    /\ op' = IF attr = ""
             THEN Call("getfit", "", <<>>, getfit(Reg, Init_), "ok")
             ELSE IF \A i \in 1..Len(keysfit) : HasAttr(Reg, keysfit[i], attr)
             THEN Call("getfit", attr, <<>>,
                       [i \in 1..Len(keysfit) |-> getattr(Reg, keysfit[i], attr)], "ok")
             ELSE Call("getfit", attr, <<>>, <<>>, "KeyError")

GetMc(key, parlist) ==
    /\ Idle
    /\ UNCHANGED notreg
    /\ UNCHANGED regvars
    /\ op' = IF key \in DOMAIN fitpars
             THEN Call("getmc", key, parlist, <<getmc(Reg, key, parlist)>>, "ok")
             ELSE Call("getmc", key, parlist, <<>>, "KeyError")

Get2dFromList(parlist) ==
    /\ Idle
    /\ UNCHANGED notreg
    /\ UNCHANGED regvars
    /\ op' = Call("get2d_fromlist", "", parlist, get2d_fromlist(Reg, parlist), "ok")

CheckBounds(parlist) ==
    /\ Idle
    /\ UNCHANGED notreg
    /\ UNCHANGED regvars
    /\ op' = Call("checkbounds", "", parlist, <<>>, checkbounds(Reg, parlist))

\* The caller takes the result of the call.
Return ==
    /\ ~Idle
    /\ UNCHANGED notreg
    /\ op' = NoCall
    /\ UNCHANGED regvars

Next ==
    \/ Return
    \/ \E key \in Keys, value \in Values, fixed \in BOOLEAN, b \in BoundArgs,
          dx \in DxArgs, is2D \in BOOLEAN :
            Add(key, value, fixed, b[1], b[2], dx, is2D)
    \/ \E key \in Keys, value \in Values : Default(key, value)
    \/ \E key \in Keys, value \in Values : Set(key, value)
    \/ \E mclist \in Vectors(FitVals, Len(keysfit)) : SetFit(mclist)
    \/ \E key \in Keys, i \in BOOLEAN, attr \in Attrs : Get(key, i, attr)
    \/ \E i \in BOOLEAN : Get2d(i)
    \/ \E i \in BOOLEAN, attr \in Attrs : GetFit(i, attr)
    \/ \E key \in Keys, parlist \in Vectors(VecVals, Len(keysfit)) : GetMc(key, parlist)
    \/ \E parlist \in Vectors(VecVals, Len(keysfit)) : Get2dFromList(parlist)
    \/ \E parlist \in Vectors(VecVals, Len(keysfit)) : CheckBounds(parlist)

Spec == Init /\ [][Next]_vars

(***************************************************************************)
(* Claims about the registry, checked under Spec.                          *)
(***************************************************************************)
\* The number of occurrences of key in the list s.
Count(s, key) == Cardinality({i \in 1..Len(s) : s[i] = key})

\* C1: getfit returns as many values as there are free keys, and right
\* after setfit(v), get(key, Init=False) returns v[i] for the i-th key of
\* keysfit, for every position i.
C1_FitRoundTrip ==
    /\ (op.name = "getfit" /\ op.err = "ok") => Len(op.ret) = Len(keysfit)
    /\ op.name = "setfit" =>
          \A i \in 1..Len(keysfit) : get(Reg, keysfit[i], FALSE) = op.arg[i]

\* C2: checkbounds(v) raises if and only if some position i of keysfit has
\* v[i] < min or v[i] > max of its key; values equal to min or max pass.
OutOfBounds(v) ==
    \E i \in 1..Len(keysfit) :
        LET fp == fitpars[keysfit[i]]
        IN  /\ "min" \in fp.has
            /\ (v[i] < fp.min \/ v[i] > fp.max)

C2_CheckBoundsExact ==
    op.name = "checkbounds" => ((op.err # "ok") <=> OutOfBounds(op.arg))

\* C3: every registered key occurs exactly once in keysall, once in keysfit
\* if its record is not fixed and not at all if it is fixed, and at most
\* once in keys2d; the lists hold registered keys only.
C3_KeyListsConsistent ==
    /\ Range(keysall) = DOMAIN fitpars
    /\ Range(keysfit) \subseteq DOMAIN fitpars
    /\ Range(keys2d) \subseteq DOMAIN fitpars
    /\ \A k \in DOMAIN fitpars :
          /\ Count(keysall, k) = 1
          /\ Count(keysfit, k) = (IF fitpars[k].fixed THEN 0 ELSE 1)
          /\ Count(keys2d, k) <= 1

\* C4: get2d_fromlist(v) returns one value per entry of keys2d, in order:
\* the stored initial value of a fixed key, and for a free key v[p], p being
\* the key's (first) position in keysfit; that is getmc(key, v) of each.
C4_Resolve2D ==
    op.name = "get2d_fromlist" =>
      /\ Len(op.ret) = Len(keys2d)
      /\ \A i \in 1..Len(keys2d) :
            LET k == keys2d[i]
            IN  /\ op.ret[i] = (IF fitpars[k].fixed THEN fitpars[k].value_init
                                ELSE op.arg[IndexOf(keysfit, k)])
                /\ op.ret[i] = getmc(Reg, k, op.arg)

\* A get2d_fromlist call that resolved a fixed 2D key and a free 2D key
\* whose position in keysfit differs from its position in keys2d.
C4_Witness ==
    /\ op.name = "get2d_fromlist"
    /\ \E i, j \in 1..Len(keys2d) :
          /\ fitpars[keys2d[i]].fixed
          /\ ~fitpars[keys2d[j]].fixed
          /\ IndexOf(keysfit, keys2d[j]) # j
          /\ op.ret[j] # fitpars[keys2d[j]].value_init

(***************************************************************************)
(* The epos instance as a state machine: one action per method, called in  *)
(* any order by a single-threaded caller, as for the registry.             *)
(***************************************************************************)
\* What the epos methods leave alone (set_parametric replaces the registry).
notepos == <<op, chains, dens>>

InitRange ==
    /\ fitpars = EmptyDict
    /\ keysall = <<>>
    /\ keysfit = <<>>
    /\ keys2d = <<>>
    /\ op = NoCall
    /\ chains = [c \in Chains |-> NoChain]
    /\ \E RV \in BOOLEAN : epos = NewEpos(RV)
    /\ ecall = NoECall
    /\ completed = 0
    /\ dens = NoDens

ECall(name, out) ==
    /\ epos' = out.e
    /\ ecall' = [name |-> name, err |-> out.err]

SetObservation(n, ny) ==
    /\ EIdle
    /\ ECall("set_observation", set_observation(epos, n, ny))
    /\ UNCHANGED <<regvars, notepos, completed>>

SetSurvey(xvar, yvar, eff_2D, Rstar, Mstar) ==
    /\ EIdle
    /\ ECall("set_survey", set_survey(epos, xvar, yvar, eff_2D, Rstar, Mstar))
    /\ UNCHANGED <<regvars, notepos, completed>>

SetParametric(func) ==
    /\ EIdle
    /\ ECall("set_parametric", set_parametric(epos, func))
    /\ SetReg(EmptyReg)
    /\ UNCHANGED <<notepos, completed>>

SetMassRadius(masslimits) ==
    /\ EIdle
    /\ ECall("set_massradius", set_massradius(epos, masslimits))
    /\ UNCHANGED <<regvars, notepos, completed>>

\* set_ranges, its keyword arguments drawn from the given sets once the
\* state check has let the call through.
SetRanges(XTrims, YTrims, XZooms, YZooms) ==
    /\ EIdle
    /\ IF RangeGuard(epos) # ""
       THEN /\ ECall("set_ranges",
                     set_ranges(epos, <<>>, <<>>, <<>>, <<>>, FALSE, FALSE))
            /\ UNCHANGED completed
       ELSE \E xtrim \in XTrims, ytrim \in YTrims, xzoom \in XZooms,
               yzoom \in YZooms, LogArea \in BOOLEAN, Occ \in BOOLEAN :
              LET out == set_ranges(epos, xtrim, ytrim, xzoom, yzoom, LogArea, Occ)
              IN  /\ ECall("set_ranges", out)
                  /\ completed' = IF out.err = "ok" THEN completed + 1
                                  ELSE completed
    /\ UNCHANGED <<regvars, notepos>>

\* The caller takes the result of the call.
EReturn ==
    /\ ~EIdle
    /\ ecall' = NoECall
    /\ UNCHANGED <<regvars, notepos, epos, completed>>

NextRange ==
    \/ EReturn
    \/ \E sz \in ObsSizes : SetObservation(sz[1], sz[2])
    \/ \E xvar \in SomeAxes, yvar \in YAxes :
         \E eff_2D \in {Matrix(Len(xvar), Len(yvar), 0),
                         Matrix(Len(yvar), Len(xvar), 0)} :
            SetSurvey(xvar, yvar, eff_2D, 1, 1)
    \/ \E func \in Funcs : SetParametric(func)
    \/ \E masslimits \in MassLimits : SetMassRadius(masslimits)
    \/ SetRanges(SomeRanges, SomeRanges, SomeRanges, SomeRanges)

SpecRange == InitRange /\ [][NextRange]_vars

(***************************************************************************)
(* The surveys of one instance: set_survey called any number of times,     *)
(* with matrices that fit the axes and matrices that do not, for a star of *)
(* any radius and mass.                                                    *)
(***************************************************************************)
SurveyXAxes == {<<1, 2, 3>>, <<1, 2>>, <<2>>}
SurveyYAxes == {<<1, 2, 3>>, <<1, 2>>}
Fills == {0, 1}
\* Rstar and Mstar, in solar units.
StarVals == {1, 2}

NextSurvey ==
    \/ EReturn
    \/ \E xvar \in SurveyXAxes, yvar \in SurveyYAxes, fill \in Fills,
          Rstar \in StarVals, Mstar \in StarVals :
         \E eff_2D \in {Matrix(Len(xvar), Len(yvar), fill),
                         Matrix(Len(yvar), Len(xvar), fill)} :
            SetSurvey(xvar, yvar, eff_2D, Rstar, Mstar)

SpecSurvey == InitRange /\ [][NextSurvey]_vars

\* C11: when set_survey succeeds on a radial velocity survey, the
\* completeness grid is the raw efficiency matrix of the call, entry for
\* entry and of the same shape, with no geometric factor, whatever Rstar
\* and Mstar were supplied.
C11_RVCompleteness ==
    (epos.RV /\ ecall.name = "set_survey" /\ ecall.err = "ok") =>
        /\ epos.completeness.geo = <<>>
        /\ Shape(epos.completeness.cells) = epos.eff_2D
        /\ \A i \in 1..epos.eff_2D[1] : \A j \in 1..epos.eff_2D[2] :
              epos.completeness.cells[i][j] = epos.eff_cells[i][j]

\* A radial velocity survey of a star of two solar masses, on a matrix
\* whose entries differ.
C11_Witness ==
    /\ epos.RV /\ ecall.name = "set_survey" /\ ecall.err = "ok"
    /\ epos.Mstar = 2
    /\ epos.eff_2D = <<3, 2>>
    /\ epos.eff_cells[1][1] # epos.eff_cells[1][2]
    /\ epos.eff_cells[1][1] # epos.eff_cells[2][1]

\* C17: whenever DetectionEfficiency is set, the stored efficiency matrix
\* has the shape of the stored axes, and the stored completeness grid has
\* that shape and is the one derived from the stored axes and matrix.
C17_SurveyConsistent ==
    epos.DetectionEfficiency =>
        /\ epos.eff_2D = <<Len(epos.eff_xvar), Len(epos.eff_yvar)>>
        /\ Shape(epos.completeness.cells) = epos.eff_2D
        /\ epos.completeness =
              Completeness(epos.RV, epos.eff_cells, epos.eff_xvar,
                           epos.Rstar, epos.Mstar)

(***************************************************************************)
(* The bins of one instance: set_bins called any number of times, each     *)
(* axis given as a list of one to three distinct bins, as a single pair of *)
(* edges or as a grid of interfaces.                                       *)
(***************************************************************************)
Edges == {1, 2, 3}
BinPairs == {p \in Edges \X Edges : p[1] < p[2]}
\* Lists of distinct bins, in any order.
BinLists ==
    UNION {{l \in [1..n -> BinPairs] : \A i, j \in 1..n : i # j => l[i] # l[j]} :
            n \in 1..Cardinality(BinPairs)}
\* The bins of one axis, as the pair <<bins, grid>> of arguments: grid left
\* None, or given (and bins left at its default [[1,10]]).
DefaultBins == [ndim |-> 2, v |-> <<<<1, 10>>>>]
AxisBins ==
    {<<[ndim |-> 2, v |-> l], <<>>>> : l \in BinLists}
    \cup {<<[ndim |-> 1, v |-> <<p>>], <<>>>> : p \in BinPairs}
    \cup {<<DefaultBins, g>> : g \in {SortedSeq(S) : S \in (SUBSET Edges) \ {{}}}}

\* The number of bins an axis argument asks for.
NBins(a) ==
    IF a[2] # <<>> THEN Len(a[2]) - 1
    ELSE IF a[1].ndim = 1 THEN 1 ELSE Len(a[1].v)

\* Bin k of an axis argument, in input order.
NthBin(a, k) ==
    IF a[2] # <<>> THEN <<a[2][k], a[2][k + 1]>>
    ELSE IF a[1].ndim = 1 THEN a[1].v[1] ELSE a[1].v[k]

\* set_bins; the call that is returning keeps its arguments.
SetBins(x, y, Grid) ==
    /\ EIdle
    /\ LET out == set_bins(epos, x[1], y[1], x[2], y[2], Grid)
       IN  /\ epos' = out.e
           /\ ecall' = [name |-> "set_bins", err |-> out.err,
                        x |-> x, y |-> y, Grid |-> Grid]
    /\ UNCHANGED <<regvars, notepos, completed>>

NextBins ==
    \/ EReturn
    \/ \E x \in AxisBins, y \in AxisBins, Grid \in BOOLEAN : SetBins(x, y, Grid)

SpecBins == Init /\ [][NextBins]_vars

\* C14: a set_bins call with Grid=True on nx >= 1 and ny >= 1 distinct
\* bins stores nx*ny rows, and pairing row k of the stored x bins with row
\* k of the stored y bins gives every combination of an x bin and a y bin
\* exactly once.
C14_GridTiling ==
    (/\ ecall.name = "set_bins" /\ ecall.Grid /\ ecall.err = "ok"
     /\ NBins(ecall.x) >= 1 /\ NBins(ecall.y) >= 1) =>
        LET nx == NBins(ecall.x)
            ny == NBins(ecall.y)
        IN  /\ Len(epos.bin.x) = nx * ny
            /\ Len(epos.bin.y) = nx * ny
            /\ \A i \in 1..nx : \A j \in 1..ny :
                  Cardinality({k \in 1..(nx * ny) :
                      /\ epos.bin.x[k] = NthBin(ecall.x, i)
                      /\ epos.bin.y[k] = NthBin(ecall.y, j)}) = 1

\* C15: a set_bins call with Grid=False raises the ValueError of unequal
\* bins exactly when the numbers of x bins and y bins differ; on n bins each
\* it stores n rows, row k holding x bin k and y bin k in input order, for
\* bins given as pairs of edges and for bins of a grid of n+1 interfaces.
C15_PairedBins ==
    (ecall.name = "set_bins" /\ ~ecall.Grid) =>
        LET nx == NBins(ecall.x)
            ny == NBins(ecall.y)
        IN  /\ ecall.err = "ValueError" <=> nx # ny
            /\ nx = ny =>
                  /\ ecall.err = "ok"
                  /\ Len(epos.bin.x) = nx /\ Len(epos.bin.y) = nx
                  /\ \A k \in 1..nx :
                        /\ epos.bin.x[k] = NthBin(ecall.x, k)
                        /\ epos.bin.y[k] = NthBin(ecall.y, k)

\* Two x bins from a grid of three interfaces, paired with two y bins given
\* as pairs of edges out of order.
C15_Witness ==
    /\ ecall.name = "set_bins" /\ ~ecall.Grid /\ ecall.err = "ok"
    /\ ecall.x[2] = <<1, 2, 3>>
    /\ ecall.y[2] = <<>> /\ ecall.y[1].v = <<<<2, 3>>, <<1, 2>>>>
    /\ epos.bin.x = <<<<1, 2>>, <<2, 3>>>>

(***************************************************************************)
(* The ranges of one set_ranges call.  The instance set_ranges is called   *)
(* on has an observation, a survey on any x axis of two samples or more    *)
(* and a parametric function; the call draws its x ranges from every pair  *)
(* lo <= hi.                                                               *)
(***************************************************************************)
YTrimArgs == {<<>>, <<2, 3>>, <<MaxAxis + 1, MaxAxis + 2>>}
YZoomArgs == {<<>>, <<2, 2>>}

\* The instances after set_observation, set_survey and set_parametric.
Surveyed ==
    {set_parametric(
        set_survey(set_observation(NewEpos(FALSE), 2, 2).e,
                   xvar, yvar, Matrix(Len(xvar), Len(yvar), 0), 1, 1).e,
        func).e : xvar \in {a \in XAxes : Len(a) >= 2}, yvar \in YAxes,
                  func \in Funcs}

InitTrim ==
    /\ fitpars = EmptyDict
    /\ keysall = <<>>
    /\ keysfit = <<>>
    /\ keys2d = <<>>
    /\ op = NoCall
    /\ chains = [c \in Chains |-> NoChain]
    /\ epos \in Surveyed
    /\ ecall = NoECall
    /\ completed = 0
    /\ dens = NoDens

NextTrim ==
    \/ EReturn
    \/ SetRanges(AllRanges, YTrimArgs, AllRanges, YZoomArgs)

SpecTrim == InitTrim /\ [][NextTrim]_vars

\* A pair lo <= hi inside the range lim.
Within(r, lim) == lim[1] <= r[1] /\ r[1] <= r[2] /\ r[2] <= lim[2]

\* C6: a set_ranges call made while no observation is set, or no detection
\* efficiency is set, or after a set_ranges call has completed, raises the
\* state error (ValueError) and changes nothing; so set_ranges completes at
\* most once, and only on an instance that has both.
C6_StateErrors ==
    /\ [](/\ completed <= 1
          /\ completed >= 1 =>
                epos.Range /\ epos.Observation /\ epos.DetectionEfficiency)
    /\ [][(/\ ecall'.name = "set_ranges"
           /\ ecall.name = "idle"
           /\ \/ completed >= 1
              \/ ~epos.Observation
              \/ ~epos.DetectionEfficiency)
          => /\ ecall'.err = "ValueError"
             /\ UNCHANGED <<epos, completed>>]_vars

\* A second set_ranges call, refused after the first one completed.
C6_Witness ==
    /\ ecall.name = "set_ranges"
    /\ ecall.err = "ValueError"
    /\ completed = 1

\* C7: after set_ranges completes, the stored trim bounds lie within the
\* extent of the efficiency grid and the stored zoom bounds within the trim
\* bounds, on both axes.
C7_BoundsNested ==
    (ecall.name = "set_ranges" /\ ecall.err = "ok") =>
        /\ Within(epos.xtrim, epos.eff_xlim)
        /\ Within(epos.ytrim, epos.eff_ylim)
        /\ Within(epos.xzoom, epos.xtrim)
        /\ Within(epos.yzoom, epos.ytrim)

\* array is strictly increasing.
Increasing(array) == \A i \in 1..(Len(array) - 1) : array[i] < array[i + 1]

\* sub is a non-empty contiguous slice of array whose first sample is <= lo
\* and whose last sample is >= hi.
Brackets(sub, array, trim) ==
    /\ sub # <<>>
    /\ \E i, j \in 1..Len(array) : sub = SubSeq(array, i, j)
    /\ sub[1] <= trim[1]
    /\ sub[Len(sub)] >= trim[2]

\* C8: when set_ranges has cut the working axes, each strictly increasing
\* grid axis of two samples or more whose trim interval lo <= hi lies in the
\* axis extent gives a working axis that is a non-empty contiguous slice of
\* it, starting at or below lo and ending at or above hi.
C8_Bracketing ==
    (ecall.name = "set_ranges" /\ ecall.err \in {"ok", "NameError"}) =>
        /\ (/\ Increasing(epos.eff_xvar) /\ Len(epos.eff_xvar) >= 2
            /\ Within(epos.xtrim, epos.eff_xlim))
           => Brackets(epos.MC_xvar, epos.eff_xvar, epos.xtrim)
        /\ (/\ Increasing(epos.eff_yvar) /\ Len(epos.eff_yvar) >= 2
            /\ Within(epos.ytrim, epos.eff_ylim))
           => Brackets(epos.MC_yvar, epos.eff_yvar, epos.ytrim)

\* A trim strictly inside a grid axis, with both edges between samples or
\* on inner samples: the slice is cut at both ends.
C8_Witness ==
    /\ ecall.name = "set_ranges" /\ ecall.err = "ok"
    /\ Within(epos.xtrim, epos.eff_xlim)
    /\ Len(epos.MC_xvar) < Len(epos.eff_xvar)
    /\ epos.MC_xvar[1] < epos.xtrim[1]
    /\ epos.xtrim[1] \notin Range(epos.eff_xvar)

\* sub keeps a sample of array strictly below lo if array has one.
KeepsBelow(sub, array, trim) ==
    (\E k \in 1..Len(array) : array[k] < trim[1]) => sub[1] < trim[1]

\* sub keeps a sample of array strictly above hi if array has one.
KeepsAbove(sub, array, trim) ==
    (\E k \in 1..Len(array) : array[k] > trim[2]) => sub[Len(sub)] > trim[2]

\* C16: when set_ranges has cut the working axes, each strictly increasing
\* grid axis of two samples or more whose trim interval lo <= hi lies in the
\* axis extent gives a working axis that starts strictly below lo if the
\* axis has a sample there, and ends strictly above hi if the axis has a
\* sample there, also when lo or hi is itself a sample.
C16_EdgeTrim ==
    (ecall.name = "set_ranges" /\ ecall.err \in {"ok", "NameError"}) =>
        /\ (/\ Increasing(epos.eff_xvar) /\ Len(epos.eff_xvar) >= 2
            /\ Within(epos.xtrim, epos.eff_xlim))
           => /\ KeepsBelow(epos.MC_xvar, epos.eff_xvar, epos.xtrim)
              /\ KeepsAbove(epos.MC_xvar, epos.eff_xvar, epos.xtrim)
        /\ (/\ Increasing(epos.eff_yvar) /\ Len(epos.eff_yvar) >= 2
            /\ Within(epos.ytrim, epos.eff_ylim))
           => /\ KeepsBelow(epos.MC_yvar, epos.eff_yvar, epos.ytrim)
              /\ KeepsAbove(epos.MC_yvar, epos.eff_yvar, epos.ytrim)

(***************************************************************************)
(* The densities of periodradius on a configured instance: one whose       *)
(* set_ranges call has completed on a survey without mass-radius           *)
(* conversion, with a registry holding pps and one 2D parameter.  The      *)
(* caller, single-threaded, writes fitted values with setfit and evaluates *)
(* periodradius on the stored values or on a vector, on the default grid   *)
(* or on the working grid handed back as xgrid and ygrid.                  *)
(***************************************************************************)
PdfTrims == {<<>>, <<1, 1>>, <<2, 3>>, <<MaxAxis + 1, MaxAxis + 2>>}

Configured ==
    LET outs == {set_ranges(s, xtrim, ytrim, <<>>, <<>>, LogArea, FALSE) :
                    s \in Surveyed, xtrim \in PdfTrims,
                    ytrim \in {<<>>, <<2, 3>>}, LogArea \in BOOLEAN}
    IN  {out.e : out \in {o \in outs : o.err = "ok"}}

PdfRegs ==
    {add(add(EmptyReg, "pps", v, FALSE, NegInf, PosInf, <<>>, FALSE),
         "k1", 1, fixed, NegInf, PosInf, <<>>, TRUE) :
        v \in Values, fixed \in BOOLEAN}

InitPdf ==
    /\ \E r \in PdfRegs :
          /\ fitpars = r.fitpars
          /\ keysall = r.keysall
          /\ keysfit = r.keysfit
          /\ keys2d = r.keys2d
    /\ op = NoCall
    /\ chains = [c \in Chains |-> NoChain]
    /\ epos \in Configured
    /\ ecall = NoECall
    /\ completed = 1
    /\ dens = NoDens

PeriodRadius(Init_, fpara, xgrid, ygrid) ==
    /\ Idle
    /\ dens.name = "idle"
    /\ dens' = [name |-> "periodradius", Init |-> Init_, fpara |-> fpara,
                xgrid |-> xgrid, ygrid |-> ygrid,
                out |-> periodradius(epos, Reg, Init_, fpara, xgrid, ygrid)]
    /\ UNCHANGED <<regvars, op, chains, epos, ecall, completed>>

\* The caller takes the densities.
DReturn ==
    /\ dens.name # "idle"
    /\ dens' = NoDens
    /\ UNCHANGED <<regvars, op, chains, epos, ecall, completed>>

NextPdf ==
    \/ /\ dens.name = "idle"
       /\ \E mclist \in Vectors(FitVals, Len(keysfit)) : SetFit(mclist)
    \/ Return
    \/ \E Init_ \in BOOLEAN,
          grid \in {<<<<>>, <<>>>>, <<epos.MC_xvar, epos.MC_yvar>>} :
            PeriodRadius(Init_, <<>>, grid[1], grid[2])
    \/ \E v \in Vectors(FitVals, Len(keysfit)),
          grid \in {<<<<>>, <<>>>>, <<epos.MC_xvar, epos.MC_yvar>>} :
            PeriodRadius(FALSE, <<v>>, grid[1], grid[2])
    \/ DReturn

SpecPdf == InitPdf /\ [][NextPdf]_vars

\* The call that is returning was made on the default grid.
OnDefaultGrid ==
    /\ dens.name = "periodradius"
    /\ dens.out.err = "ok"
    /\ dens.xgrid = <<>> /\ dens.ygrid = <<>>

\* The density function the call evaluated returned non-negative cells with
\* a positive total, and pps is positive.
ValidDensity ==
    LET raw == FuncOn(epos.func, epos.MC_xvar, epos.in_yvar, epos.in_yunit,
                      Resolve2d(Reg, dens.Init, dens.fpara))
    IN  /\ dens.out.pps > 0
        /\ \A i \in 1..Len(raw) : \A j \in 1..Len(raw[i]) :
              raw[i][j].d > 0 /\ raw[i][j].n >= 0
        /\ ~IsZero(SumAll(raw))

\* The sum over all cells of pdf / (pps * scale).
MassOf(out) ==
    SumAll([i \in 1..Len(out.pdf) |-> [j \in 1..Len(out.pdf[i]) |->
        NDiv(out.pdf[i][j], NMul(NInt(out.pps), epos.scale))]])

NEq(a, b) == ~IsNan(a) /\ ~IsNan(b) /\ a = b

\* C10: when xgrid and ygrid are the working grid itself and there is no
\* mass-radius conversion, the joint density and both marginals equal those
\* of the call without xgrid and ygrid for the same parameters.
C10_PathsAgree ==
    (/\ dens.name = "periodradius"
     /\ dens.out.err = "ok"
     /\ dens.xgrid = epos.MC_xvar /\ dens.ygrid = epos.MC_yvar
     /\ ~epos.MassRadius)
    => LET a == dens.out
           d == periodradius(epos, Reg, dens.Init, dens.fpara, <<>>, <<>>)
       IN  /\ \A i \in 1..Len(a.pdf) : \A j \in 1..Len(a.pdf[i]) :
                NEq(a.pdf[i][j], d.pdf[i][j])
           /\ \A i \in 1..Len(a.pdf_X) : NEq(a.pdf_X[i], d.pdf_X[i])
           /\ \A j \in 1..Len(a.pdf_Y) : NEq(a.pdf_Y[j], d.pdf_Y[j])

(***************************************************************************)
(* Optimizer chains.  Each chain evaluates population.periodradius once on *)
(* the shared registry epos.fitpars, either handing its own vector (fpara) *)
(* or on the stored values (fpara=None), which it first writes with        *)
(* setfit.  periodradius reads the registry in two calls (lines 9-10 or    *)
(* 12-13); other chains may run between the two.  The registry the chains  *)
(* start from is one that add() builds.                                    *)
(***************************************************************************)
\* The vector of chain c: component i is 10*c + i, so that a value tells
\* which chain and which position it came from.
ChainVec(c) == [i \in 1..Len(keysfit) |-> 10 * c + i]

\* The registries after at most n add calls (value 1, default bounds).
RECURSIVE RegsAfter(_)
RegsAfter(n) ==
    IF n = 0 THEN {EmptyReg}
    ELSE LET prev == RegsAfter(n - 1)
         IN  prev \cup {add(r, k, 1, f, NegInf, PosInf, <<>>, d) :
                           r \in prev, k \in Keys, f \in BOOLEAN, d \in BOOLEAN}

InitConc ==
    /\ \E r \in RegsAfter(MaxKeys) :
          /\ fitpars = r.fitpars
          /\ keysall = r.keysall
          /\ keysfit = r.keysfit
          /\ keys2d = r.keys2d
    /\ op = NoCall
    /\ chains = [c \in Chains |-> NoChain]
    /\ InitEpos

\* A chain starts: with its own vector it calls periodradius(fpara=vector)
\* at once, without one it is about to call setfit.
Launch(c, mode) ==
    /\ chains[c].pc = "idle"
    /\ chains' = [chains EXCEPT ![c].mode = mode,
                                ![c].pc = IF mode = "fpara" THEN "call" ELSE "setfit"]
    /\ UNCHANGED <<regvars, notconc>>

\* The chain on the stored path writes its vector: epos.fitpars.setfit.
ChainSetFit(c) ==
    /\ chains[c].pc = "setfit"
    /\ SetReg(setfit(Reg, ChainVec(c)))
    /\ chains' = [chains EXCEPT ![c].pc = "call"]
    /\ UNCHANGED notconc

\* population.py lines 9 and 12: pps.
ReadPps(c) ==
    /\ chains[c].pc = "call"
    /\ chains' =
         IF "pps" \notin DOMAIN fitpars
         THEN [chains EXCEPT ![c].pc = "KeyError"]
         ELSE [chains EXCEPT
                 ![c].pc = "pps",
                 ![c].pps = IF chains[c].mode = "fpara"
                            THEN getmc(Reg, "pps", ChainVec(c))
                            ELSE get(Reg, "pps", FALSE)]
    /\ UNCHANGED <<regvars, notconc>>

\* population.py lines 10 and 13: fpar2d.
Read2d(c) ==
    /\ chains[c].pc = "pps"
    /\ chains' = [chains EXCEPT
                    ![c].pc = "done",
                    ![c].fpar2d = IF chains[c].mode = "fpara"
                                  THEN get2d_fromlist(Reg, ChainVec(c))
                                  ELSE get2d(Reg, FALSE)]
    /\ UNCHANGED <<regvars, notconc>>

NextConc ==
    \/ \E c \in Chains, mode \in {"fpara", "stored"} : Launch(c, mode)
    \/ \E c \in Chains : ChainSetFit(c)
    \/ \E c \in Chains : ReadPps(c)
    \/ \E c \in Chains : Read2d(c)

SpecConc == InitConc /\ [][NextConc]_vars

\* What an evaluation with vector v resolves for key when it runs alone: the
\* initial value of a fixed key, else v at the key's position in keysfit.
OwnValue(key, v) ==
    IF fitpars[key].fixed THEN fitpars[key].value_init
    ELSE v[IndexOf(keysfit, key)]

\* C5: an evaluation that hands its own vector never writes the registry,
\* and what it resolves for pps and the 2D parameters is what it resolves
\* when it runs alone, whatever the other chains do in between.
C5_OwnVectorPathIsolated ==
    /\ [](\A c \in Chains :
            chains[c].mode = "fpara" =>
              /\ chains[c].pc \in {"pps", "done"} =>
                    chains[c].pps = OwnValue("pps", ChainVec(c))
              /\ chains[c].pc = "done" =>
                    chains[c].fpar2d =
                      [i \in 1..Len(keys2d) |-> OwnValue(keys2d[i], ChainVec(c))])
    /\ [][\A c \in Chains :
            (chains'[c] # chains[c] /\ chains'[c].mode = "fpara")
               => UNCHANGED regvars]_vars

\* A chain on the own-vector path has resolved a free pps and a free 2D key
\* from its vector while the registry holds the fitted values another chain
\* wrote with setfit.
C5_Witness ==
    \E c, d \in Chains :
        /\ c # d
        /\ chains[c].mode = "fpara" /\ chains[c].pc = "done"
        /\ "pps" \in Range(keysfit)
        /\ \E i \in 1..Len(keys2d) :
              /\ ~fitpars[keys2d[i]].fixed
              /\ chains[c].fpar2d[i] = ChainVec(c)[IndexOf(keysfit, keys2d[i])]
        /\ chains[d].mode = "stored" /\ chains[d].pc = "done"
        /\ get(Reg, "pps", FALSE) = ChainVec(d)[IndexOf(keysfit, "pps")]
        /\ chains[c].pps # get(Reg, "pps", FALSE)

\* The stored path, by contrast: a chain that wrote its vector with setfit
\* has resolved pps to a component of the other chain's vector.
C5_StoredPathSeesOther ==
    \E c, d \in Chains :
        /\ c # d
        /\ chains[c].mode = "stored" /\ chains[c].pc \in {"pps", "done"}
        /\ chains[c].pps \in Range(ChainVec(d))

(***************************************************************************)
(* set_population on a new instance, with catalogs of up to MaxPlanets     *)
(* planets around the stars of StarIDs; mass, starID, inc and tag come     *)
(* with the length of sma or one more, inc and tag also with one less.     *)
(***************************************************************************)
MaxPlanets == 3

SmaVals == {0, 1, 2}

StarIDs == {1, 2}

SmaLists == UNION {[1..n -> SmaVals] : n \in 1..MaxPlanets}

Filled(n, v) == [k \in 1..n |-> v]

StarIDArgs(n) ==
    {<<>>} \cup {<<ID>> : ID \in [1..n -> StarIDs] \cup [1..(n + 1) -> StarIDs]}

ListArgs(n) == {<<>>} \cup {<<Filled(m, 0)>> : m \in (n - 1)..(n + 1)}

\* set_population; a call on an instance with a population is refused
\* before its arguments matter.  The call that is returning keeps its
\* arguments and whether the instance was without a population.
SetPopulation ==
    /\ EIdle
    /\ IF "pfm" \in epos.has
       THEN /\ ECall("set_population", set_population(epos, <<>>, <<>>, <<>>, <<>>, <<>>))
            /\ UNCHANGED regvars
       ELSE /\ \E sma \in SmaLists :
               \E mass \in {Filled(Len(sma), 1), Filled(Len(sma) + 1, 1)},
                  starID \in StarIDArgs(Len(sma)),
                  inc \in ListArgs(Len(sma)), tag \in ListArgs(Len(sma)) :
                  LET out == set_population(epos, sma, mass, inc, starID, tag)
                  IN  /\ epos' = out.e
                      /\ ecall' = [name |-> "set_population", err |-> out.err,
                                   new |-> TRUE, sma |-> sma, mass |-> mass,
                                   inc |-> inc, starID |-> starID, tag |-> tag]
            /\ SetReg(EmptyReg)
    /\ UNCHANGED <<notepos, completed>>

NextPop ==
    \/ EReturn
    \/ SetPopulation

SpecPop == Init /\ [][NextPop]_vars

\* A set_population call on an instance without a population.
NewPopulation == ecall.name = "set_population" /\ "new" \in DOMAIN ecall

\* The lists given with the call that do not have the length of sma.
OffLength ==
    {k \in {"mass", "starID", "inc", "tag"} :
        IF k = "mass" THEN Len(ecall.mass) # Len(ecall.sma)
        ELSE ecall[k] # <<>> /\ Len(ecall[k][1]) # Len(ecall.sma)}

\* C13: a set_population call on an instance without a population, given a
\* mass, star ID, inclination or tag list whose length is not that of sma,
\* raises the ValueError of an inconsistent catalog and stores no pfm.
C13_LengthsChecked ==
    (NewPopulation /\ OffLength # {}) =>
        /\ ecall.err = "ValueError"
        /\ "pfm" \notin epos.has

\* Planet k of the stored catalog is the first of its star.
FirstOfStar(pfm, k) == k = 1 \/ pfm.ID[k - 1] # pfm.ID[k]

\* C12: a set_population call with lists of one length and at least one
\* star with two or more planets stores a dP in which the first planet of
\* every star, alone or not, holds one and the same value, and every other
\* planet the ratio of its period to that of the planet before it.
C12_NeighborRatio ==
    (/\ NewPopulation /\ OffLength = {}
     /\ \E k \in 1..Len(epos.pfm.ID) : PlanetsOf(epos.pfm.ID, k) > 1) =>
        LET pfm == epos.pfm
        IN  /\ ecall.err = "ok"
            /\ "dP" \in pfm.has
            /\ Len(pfm.dP) = Len(pfm.P)
            /\ \E s \in Range(pfm.dP) :
                  \A k \in 1..Len(pfm.dP) :
                      pfm.dP[k] = IF FirstOfStar(pfm, k) THEN s
                                  ELSE Num(pfm.P[k], pfm.P[k - 1], 0)
====
